---- MODULE Spec2Model ----
(***************************************************************************)
(* A model of askbot/utils/html.py: the allow-list sanitizer, the URL      *)
(* rewriter, the auto-linker, the link/image neutralizers and the tag      *)
(* stripper.                                                               *)
(*                                                                         *)
(* An HTML string is a sequence of lexemes (short strings): the markup     *)
(* delimiters "<", ">", "/", tag-name words, complete attributes such as   *)
(* " href=\"/u\"", text words, white space and character references.       *)
(* Parsing and serializing are computed on these sequences, so that        *)
(* "<" and "&lt;" are different inputs with the same parsed text.          *)
(***************************************************************************)
EXTENDS Integers, Sequences, FiniteSets, TLC

VARIABLES pc, fn, args, ret, settings

vars == <<pc, fn, args, ret, settings>>

(***************************************************************************)
(* Bounds of the model.                                                    *)
(***************************************************************************)
MaxHtmlLen == 4

MaxChunks == 4

MaxTextLen == 2

(***************************************************************************)
(* Generic helpers on sequences.                                           *)
(***************************************************************************)
Range(s) == {s[i] : i \in 1..Len(s)}

SeqsUpTo(S, n) == UNION {[1..k -> S] : k \in 0..n}

RECURSIVE Flatten(_)
Flatten(ss) == IF ss = <<>> THEN <<>> ELSE Head(ss) \o Flatten(Tail(ss))

Count(s, P(_)) == Cardinality({i \in 1..Len(s) : P(s[i])})

(***************************************************************************)
(* The allow-lists (html.py lines 20-35).                                  *)
(***************************************************************************)
ALLOWED_HTML_ELEMENTS ==
    {"a", "abbr", "acronym", "address", "b", "big",
     "blockquote", "br", "caption", "center", "cite", "code", "col",
     "colgroup", "dd", "del", "dfn", "dir", "div", "dl", "dt", "em", "font",
     "h1", "h2", "h3", "h4", "h5", "h6", "hr", "i", "img", "ins", "kbd",
     "li", "ol", "p", "pre", "q", "s", "samp", "small", "span", "strike",
     "strong", "sub", "sup", "table", "tbody", "td", "tfoot", "th", "thead",
     "tr", "tt", "u", "ul", "var", "param"}

ALLOWED_HTML_ATTRIBUTES ==
    {"abbr", "align", "alt", "axis", "border", "class",
     "cellpadding", "cellspacing", "char", "charoff", "charset", "cite",
     "cols", "colspan", "datetime", "dir", "frame", "headers", "height",
     "href", "hreflang", "hspace", "lang", "longdesc", "name", "nohref",
     "noshade", "nowrap", "rel", "rev", "rows", "rowspan", "rules", "scope",
     "span", "src", "start", "summary", "title", "type", "valign", "vspace",
     "width"}

(***************************************************************************)
(* Lexemes.                                                                *)
(***************************************************************************)
AttrLexemes ==
    {" href=\"/u\"", " href=\"http://x.com\"", " src=\"/u\"",
     " onclick=\"u\"", " style=\"u\"", " junk=\"\""}

AttrName(l) ==
    CASE l = " href=\"/u\"" -> "href"
      [] l = " href=\"http://x.com\"" -> "href"
      [] l = " src=\"/u\"" -> "src"
      [] l = " onclick=\"u\"" -> "onclick"
      [] l = " style=\"u\"" -> "style"
      [] OTHER -> "junk"

\* A lexeme that begins with an ASCII letter: after "<" it opens a tag.
StartsWithLetter(l) ==
    l \notin ({"<", ">", "/", "&lt;", "&gt;", "&amp;", " ", "\n"} \cup AttrLexemes)

IsSpace(l) == l \in {" ", "\n"}

VoidElements ==
    {"area", "base", "br", "col", "embed", "hr", "img", "input", "link",
     "meta", "param", "source", "track", "wbr"}

(***************************************************************************)
(* Tokens.  name is the tag name as the lexemes it was read from, attrs    *)
(* the attribute lexemes in order, data the decoded text of a Characters   *)
(* token; id names a node of a BeautifulSoup tree (0: not yet in a tree,   *)
(* or created after the parse).                                            *)
(***************************************************************************)
StartTag(name, attrs) ==
    [type |-> "StartTag", name |-> name, attrs |-> attrs, data |-> <<>>, id |-> 0]

EndTag(name) ==
    [type |-> "EndTag", name |-> name, attrs |-> <<>>, data |-> <<>>, id |-> 0]

Characters(data) ==
    [type |-> "Characters", name |-> <<>>, attrs |-> <<>>, data |-> data, id |-> 0]

IsTag(t) == t.type \in {"StartTag", "EndTag"}

\* The tag name as one word; a name read from several lexemes is no word of
\* any allow-list.
TagName(t) == IF Len(t.name) = 1 THEN t.name[1] ELSE "?"

AddAttr(attrs, l) ==
    IF \E i \in 1..Len(attrs) : AttrName(attrs[i]) = AttrName(l)
    THEN attrs ELSE Append(attrs, l)

\* The decoded character of a lexeme of text.
Decode(l) ==
    CASE l = "&lt;" -> "<"
      [] l = "&gt;" -> ">"
      [] l = "&amp;" -> "&"
      [] OTHER -> l

\* The position after the next ">" at or after i (a bogus comment's end).
RECURSIVE AfterGt(_, _)
AfterGt(s, i) ==
    IF i > Len(s) THEN i
    ELSE IF s[i] = ">" THEN i + 1 ELSE AfterGt(s, i + 1)

(***************************************************************************)
(* The HTML tokenizer (html5lib tokenizer.HTMLTokenizer), on lexemes:      *)
(* the data state and the tag states.  A tag cut short by the end of the   *)
(* input is discarded; a "<" that opens no tag is text.                    *)
(***************************************************************************)
RECURSIVE TokData(_, _, _), TokTag(_, _, _, _, _, _, _)
TokData(s, i, out) ==
    IF i > Len(s) THEN out
    ELSE IF s[i] # "<" THEN TokData(s, i + 1, Append(out, Characters(<<Decode(s[i])>>)))
    ELSE IF i + 1 <= Len(s) /\ StartsWithLetter(s[i + 1])
         THEN TokTag(s, i + 2, "StartTag", <<s[i + 1]>>, <<>>, FALSE, out)
    ELSE IF i + 1 <= Len(s) /\ s[i + 1] = "/"
         THEN IF i + 2 > Len(s)
              THEN Append(Append(out, Characters(<<"<">>)), Characters(<<"/">>))
              ELSE IF StartsWithLetter(s[i + 2])
                   THEN TokTag(s, i + 3, "EndTag", <<s[i + 2]>>, <<>>, FALSE, out)
              ELSE IF s[i + 2] = ">" THEN TokData(s, i + 3, out)
              ELSE TokData(s, AfterGt(s, i + 2), out)
    ELSE TokData(s, i + 1, Append(out, Characters(<<"<">>)))

TokTag(s, i, type, name, attrs, inAttrs, out) ==
    IF i > Len(s) THEN out
    ELSE IF s[i] = ">"
         THEN TokData(s, i + 1,
                      Append(out, IF type = "StartTag"
                                  THEN StartTag(name, attrs) ELSE EndTag(name)))
    ELSE IF s[i] = "/" \/ IsSpace(s[i])
         THEN TokTag(s, i + 1, type, name, attrs, TRUE, out)
    ELSE IF s[i] \in AttrLexemes
         THEN TokTag(s, i + 1, type, name, AddAttr(attrs, s[i]), TRUE, out)
    ELSE IF inAttrs
         THEN TokTag(s, i + 1, type, name, AddAttr(attrs, " junk=\"\""), TRUE, out)
    ELSE TokTag(s, i + 1, type, Append(name, s[i]), attrs, FALSE, out)

Tokenize(s) == TokData(s, 1, <<>>)

(***************************************************************************)
(* The tree builder, as the balanced token sequence of the tree it builds: *)
(* a start tag opens an element (a void element has no content and no end  *)
(* tag), an end tag closes the nearest open element of its name and all    *)
(* that are open inside it, an end tag that matches nothing is dropped,    *)
(* the end of input closes what is open, and adjacent text is one node.    *)
(* A second <a> inside an open <a> closes the first.                       *)
(***************************************************************************)
InStack(stack, name) == \E i \in 1..Len(stack) : stack[i] = name

\* The end tags that close the open elements down to and including `name`
\* (the stack's head is the innermost element).
RECURSIVE CloseTo(_, _)
CloseTo(stack, name) ==
    IF stack = <<>> THEN <<>>
    ELSE IF Head(stack) = name THEN <<EndTag(name)>>
    ELSE <<EndTag(Head(stack))>> \o CloseTo(Tail(stack), name)

RECURSIVE PopTo(_, _)
PopTo(stack, name) ==
    IF stack = <<>> THEN <<>>
    ELSE IF Head(stack) = name THEN Tail(stack) ELSE PopTo(Tail(stack), name)

RECURSIVE CloseAll(_)
CloseAll(stack) ==
    IF stack = <<>> THEN <<>> ELSE <<EndTag(Head(stack))>> \o CloseAll(Tail(stack))

AppendText(out, t) ==
    IF out # <<>> /\ out[Len(out)].type = "Characters"
    THEN [out EXCEPT ![Len(out)].data = @ \o t.data]
    ELSE Append(out, t)

RECURSIVE Build(_, _, _, _)
Build(toks, i, stack, out) ==
    IF i > Len(toks) THEN out \o CloseAll(stack)
    ELSE LET t == toks[i] IN
      CASE t.type = "Characters" -> Build(toks, i + 1, stack, AppendText(out, t))
        [] t.type = "StartTag" ->
             IF TagName(t) \in VoidElements
             THEN Build(toks, i + 1, stack, Append(out, t))
             ELSE IF t.name = <<"a">> /\ InStack(stack, t.name)
                  THEN Build(toks, i + 1, <<t.name>> \o PopTo(stack, t.name),
                             Append(out \o CloseTo(stack, t.name), t))
             ELSE Build(toks, i + 1, <<t.name>> \o stack, Append(out, t))
        [] OTHER ->
             IF InStack(stack, t.name)
             THEN Build(toks, i + 1, PopTo(stack, t.name), out \o CloseTo(stack, t.name))
             ELSE Build(toks, i + 1, stack, out)

TreeBuild(toks) == Build(toks, 1, <<>>, <<>>)

(***************************************************************************)
(* The serializer: text escaped, attribute values quoted, every end tag    *)
(* written.                                                                *)
(***************************************************************************)
Escape(c) ==
    CASE c = "<" -> "&lt;"
      [] c = ">" -> "&gt;"
      [] c = "&" -> "&amp;"
      [] OTHER -> c

EscapeText(data) == [i \in 1..Len(data) |-> Escape(data[i])]

SerializeToken(t) ==
    CASE t.type = "Characters" -> EscapeText(t.data)
      [] t.type = "StartTag" -> <<"<">> \o t.name \o t.attrs \o <<">">>
      [] OTHER -> <<"<", "/">> \o t.name \o <<">">>

Serialize(dom) == Flatten([i \in 1..Len(dom) |-> SerializeToken(dom[i])])

(***************************************************************************)
(* Settings (django_settings and askbot.conf.settings): each allow-list    *)
(* override is either absent or a collection of names; the two moderation  *)
(* flags are booleans.                                                     *)
(***************************************************************************)
Unset == [set |-> FALSE, value |-> {}]

Override(S) == [set |-> TRUE, value |-> S]

\* getattr(django_settings, name, default)
Getattr(opt, default) == IF opt.set THEN opt.value ELSE default

DefaultSettings ==
    [ASKBOT_ALLOWED_HTML_ELEMENTS |-> Unset,
     ASKBOT_ALLOWED_HTML_ATTRIBUTES |-> Unset,
     MODERATE_LINKS |-> FALSE,
     MODERATE_IMAGES |-> FALSE]

\* The overrides a deployment is modelled to choose from.
ElementOverrides == {Unset, Override({"b", "script"})}

AttributeOverrides == {Unset, Override({"href", "style", "onclick"})}

(***************************************************************************)
(* HTMLSanitizerMixin.__init__: the allow-lists in force.                  *)
(***************************************************************************)
allowed_elements(s) == Getattr(s.ASKBOT_ALLOWED_HTML_ELEMENTS, ALLOWED_HTML_ELEMENTS)

allowed_attributes(s) == Getattr(s.ASKBOT_ALLOWED_HTML_ATTRIBUTES, ALLOWED_HTML_ATTRIBUTES)

NoToken == [type |-> "None", name |-> <<>>, attrs |-> <<>>, data |-> <<>>, id |-> 0]

\* sanitize_token of the inherited mixin: a tag whose name is not allowed is
\* dropped (its text content stays, being other tokens), an allowed tag keeps
\* its allowed attributes in order, text passes.
sanitize_token(t, s) ==
    IF t.type = "Characters" THEN t
    ELSE IF TagName(t) \notin allowed_elements(s) THEN NoToken
    ELSE [t EXCEPT !.attrs =
             SelectSeq(t.attrs, LAMBDA l : AttrName(l) \in allowed_attributes(s))]

HTMLSanitizer_iter_unfiltered(toks, s) == toks

\* HTMLSanitizer.__iter__: every token of the tokenizer is sanitized, and
\* yielded if something is left of it.
HTMLSanitizer_iter(toks, s) ==
    SelectSeq([i \in 1..Len(toks) |-> sanitize_token(toks[i], s)],
              LAMBDA t : t.type # "None")

SerializeRaw(dom) ==
    Flatten([i \in 1..Len(dom) |->
               IF dom[i].type = "Characters" THEN dom[i].data
               ELSE SerializeToken(dom[i])])

sanitize_html_unescaped(html, s) ==
    SerializeRaw(TreeBuild(HTMLSanitizer_iter(Tokenize(html), s)))

\* sanitize_html: parse the fragment through the sanitizing tokenizer, walk
\* the tree, serialize.
sanitize_html(html, s) ==
    Serialize(TreeBuild(HTMLSanitizer_iter(Tokenize(html), s)))

(***************************************************************************)
(* A call's result: raised, or a value; soup is the tree the call left.    *)
(***************************************************************************)
Raised == [raised |-> TRUE, value |-> <<>>, soup |-> <<>>, replaced |-> FALSE, log |-> <<>>]

Value(v, soup, replaced) ==
    [raised |-> FALSE, value |-> v, soup |-> soup, replaced |-> replaced, log |-> <<>>]

(***************************************************************************)
(* The state machine: a caller configures the settings and calls one       *)
(* function of the module at a time; the call's arguments and result are   *)
(* kept until it returns.                                                  *)
(***************************************************************************)
NoArgs == [html |-> <<>>]

NoRet == [raised |-> FALSE, value |-> <<>>, soup |-> <<>>, replaced |-> FALSE, log |-> <<>>]

Init ==
    /\ pc = "idle"
    /\ fn = "none"
    /\ args = NoArgs
    /\ ret = NoRet
    /\ settings = DefaultSettings

Return ==
    /\ pc = "done"
    /\ pc' = "idle"
    /\ fn' = "none"
    /\ args' = NoArgs
    /\ ret' = NoRet
    /\ UNCHANGED settings

ConfigureAllowLists ==
    /\ pc = "idle"
    /\ \E e \in ElementOverrides, a \in AttributeOverrides :
          settings' = [settings EXCEPT !.ASKBOT_ALLOWED_HTML_ELEMENTS = e,
                                       !.ASKBOT_ALLOWED_HTML_ATTRIBUTES = a]
    /\ UNCHANGED <<pc, fn, args, ret>>

SanitizeLexemes ==
    {"<", ">", "/", "b", "script", "&lt;",
     " href=\"/u\"", " onclick=\"u\"", " style=\"u\""}

SanitizeInputs == SeqsUpTo(SanitizeLexemes, MaxHtmlLen)

Call_sanitize_html ==
    /\ pc = "idle"
    /\ \E html \in SanitizeInputs :
          /\ args' = [html |-> html]
          /\ ret' = Value(sanitize_html(html, settings), <<>>, FALSE)
    /\ fn' = "sanitize_html"
    /\ pc' = "done"
    /\ UNCHANGED settings

NextSanitize == ConfigureAllowLists \/ Call_sanitize_html \/ Return

SpecSanitize == Init /\ [][NextSanitize]_vars

(***************************************************************************)
(* Claims about sanitize_html.                                             *)
(***************************************************************************)
Returned(f) == pc = "done" /\ fn = f

\* The tags that appear as markup in a string.
MarkupTags(html) == SelectSeq(Tokenize(html), IsTag)

TagAllowed(t, s) ==
    /\ TagName(t) \in allowed_elements(s)
    /\ \A i \in 1..Len(t.attrs) : AttrName(t.attrs[i]) \in allowed_attributes(s)

IsEventHandlerAttr(n) == n \in {"onclick"}

TagForbidden(t) ==
    \/ TagName(t) = "script"
    \/ \E i \in 1..Len(t.attrs) :
          IsEventHandlerAttr(AttrName(t.attrs[i])) \/ AttrName(t.attrs[i]) = "style"

DefaultAllowLists(s) ==
    ~s.ASKBOT_ALLOWED_HTML_ELEMENTS.set /\ ~s.ASKBOT_ALLOWED_HTML_ATTRIBUTES.set

AllowListClosure ==
    \A i \in 1..Len(MarkupTags(ret.value)) : TagAllowed(MarkupTags(ret.value)[i], settings)

NoForbiddenMarkup ==
    \A i \in 1..Len(MarkupTags(ret.value)) : ~TagForbidden(MarkupTags(ret.value)[i])

\* C1 as stated: every element and attribute name that is markup in
\* sanitize_html(x) is in the configured allow-lists, and no script element,
\* no on* attribute and no style attribute is markup in it.
C1_Original ==
    Returned("sanitize_html") => AllowListClosure /\ NoForbiddenMarkup

\* C1 as amended: every element and attribute name that is markup in
\* sanitize_html(x) is in the configured allow-lists; with the default
\* allow-lists (no override in the settings) no script element, no on*
\* attribute and no style attribute is markup in it.
C1_AllowListClosure ==
    Returned("sanitize_html") =>
        /\ AllowListClosure
        /\ DefaultAllowLists(settings) => NoForbiddenMarkup

\* C1's case: under the default allow-lists the input holds a forbidden tag or
\* attribute as markup and an allowed tag, and the output keeps markup.
C1_Witness ==
    /\ Returned("sanitize_html")
    /\ DefaultAllowLists(settings)
    /\ \E i \in 1..Len(MarkupTags(args.html)) : TagForbidden(MarkupTags(args.html)[i])
    /\ MarkupTags(ret.value) # <<>>

RECURSIVE LStrip(_)
LStrip(s) == IF s # <<>> /\ IsSpace(Head(s)) THEN LStrip(Tail(s)) ELSE s

RECURSIVE RStrip(_)
RStrip(s) ==
    IF s # <<>> /\ IsSpace(s[Len(s)]) THEN RStrip(SubSeq(s, 1, Len(s) - 1)) ELSE s

\* str.strip()
Strip(s) == RStrip(LStrip(s))

\* White space before the first tag or text of a document is not part of
\* its body.
DropLeadingSpace(dom) ==
    IF dom # <<>> /\ Head(dom).type = "Characters"
    THEN IF LStrip(Head(dom).data) = <<>> THEN Tail(dom)
         ELSE <<[Head(dom) EXCEPT !.data = LStrip(@)]>> \o Tail(dom)
    ELSE dom

\* BeautifulSoup(html, 'html5lib'): the parsed body, every node named.
BSParse(html) ==
    LET dom == DropLeadingSpace(TreeBuild(Tokenize(html)))
    IN [i \in 1..Len(dom) |-> [dom[i] EXCEPT !.id = i]]

IsVoidTag(t) == t.type = "StartTag" /\ TagName(t) \in VoidElements

\* The index of the last token of the node that starts at index i.
RECURSIVE MatchEnd(_, _, _)
MatchEnd(dom, j, depth) ==
    IF j > Len(dom) THEN Len(dom)
    ELSE IF dom[j].type = "EndTag"
         THEN IF depth = 1 THEN j ELSE MatchEnd(dom, j + 1, depth - 1)
    ELSE IF dom[j].type = "StartTag" /\ ~IsVoidTag(dom[j])
         THEN MatchEnd(dom, j + 1, depth + 1)
    ELSE MatchEnd(dom, j + 1, depth)

NodeEnd(dom, i) ==
    IF dom[i].type = "StartTag" /\ ~IsVoidTag(dom[i]) THEN MatchEnd(dom, i + 1, 1) ELSE i

\* The index of the token named id, 0 when the node is not in the tree.
IndexOfId(dom, id) ==
    IF \E i \in 1..Len(dom) : dom[i].id = id
    THEN CHOOSE i \in 1..Len(dom) : dom[i].id = id /\ \A j \in 1..(i - 1) : dom[j].id # id
    ELSE 0

\* PageElement.extract(): the node leaves the tree.
Extract(dom, id) ==
    LET i == IndexOfId(dom, id) IN
    IF id = 0 \/ i = 0 THEN dom
    ELSE SubSeq(dom, 1, i - 1) \o SubSeq(dom, NodeEnd(dom, i) + 1, Len(dom))

\* node.insert_before(new): new becomes the sibling before node; a node has
\* one place only, so a new node that is in the tree leaves its old place.
InsertBefore(dom, id, new) ==
    LET d == Extract(dom, Head(new).id)
        i == IndexOfId(d, id)
    IN IF i = 0 THEN d
       ELSE SubSeq(d, 1, i - 1) \o new \o SubSeq(d, i, Len(d))

\* node.replaceWith(new): new takes the place of node and of all it holds;
\* new leaves any place it had.  A node outside the tree (inside a node that
\* was replaced before) is replaced outside the tree.
ReplaceWith(dom, id, new) ==
    LET d == Extract(dom, Head(new).id)
        i == IndexOfId(d, id)
    IN IF i = 0 THEN d
       ELSE SubSeq(d, 1, i - 1) \o new \o SubSeq(d, NodeEnd(d, i) + 1, Len(d))

\* soup.find_all(name): the elements of that name, in document order.
find_all(dom, name) ==
    LET hits == SelectSeq(dom, LAMBDA t : t.type = "StartTag" /\ TagName(t) = name)
    IN [i \in 1..Len(hits) |-> hits[i].id]

\* The names of the elements open at index i: the node's ancestors.
RECURSIVE OpenAt(_, _, _, _)
OpenAt(dom, i, j, stack) ==
    IF j >= i THEN stack
    ELSE IF dom[j].type = "StartTag" /\ ~IsVoidTag(dom[j])
         THEN OpenAt(dom, i, j + 1, <<TagName(dom[j])>> \o stack)
    ELSE IF dom[j].type = "EndTag" THEN OpenAt(dom, i, j + 1, Tail(stack))
    ELSE OpenAt(dom, i, j + 1, stack)

Parents(dom, i) == Range(OpenAt(dom, i, 1, <<>>))

\* renderContents(): as the serializer, a void element written <img .../>.
RenderToken(t) ==
    IF IsVoidTag(t) THEN <<"<">> \o t.name \o t.attrs \o <<"/", ">">>
    ELSE SerializeToken(t)

Render(dom) == Flatten([i \in 1..Len(dom) |-> RenderToken(dom[i])])

\* @sanitized: whatever the function returns goes through sanitize_html.
sanitized(r, s) ==
    IF r.raised THEN r ELSE [r EXCEPT !.value = sanitize_html(r.value, s)]

(***************************************************************************)
(* strip_tags                                                              *)
(***************************************************************************)
NoTags == [given |-> FALSE, list |-> <<>>]

Tags(list) == [given |-> TRUE, list |-> list]

\* list(map(lambda v: v.replaceWith(''), tag_matches))
RECURSIVE ReplaceEach(_, _, _)
ReplaceEach(dom, ids, new) ==
    IF ids = <<>> THEN dom
    ELSE ReplaceEach(ReplaceWith(dom, Head(ids), new), Tail(ids), new)

RECURSIVE StripEach(_, _)
StripEach(dom, tags) ==
    IF tags = <<>> THEN dom
    ELSE StripEach(ReplaceEach(dom, find_all(dom, Head(tags)), <<Characters(<<>>)>>),
                   Tail(tags))

strip_tags_unchecked(html, tags) ==
    IF Strip(html) = <<>> THEN Value(html, <<>>, FALSE)
    ELSE LET soup == StripEach(BSParse(html), tags.list)
         IN Value(Render(soup), soup, TRUE)

strip_tags_body(html, tags) ==
    IF Strip(html) = <<>> THEN Value(html, <<>>, FALSE)
    ELSE IF ~tags.given THEN Raised
    ELSE LET soup == StripEach(BSParse(html), tags.list)
         IN Value(Render(soup), soup, TRUE)

strip_tags(html, tags, s) == sanitized(strip_tags_body(html, tags), s)

(***************************************************************************)
(* moderate_tags                                                           *)
(***************************************************************************)
\* BeautifulSoup(template.render(), 'html5lib').find('body'): the body
\* element of the rendered placeholder, one node.
Aviso(k) ==
    <<[StartTag(<<"body">>, <<>>) EXCEPT !.id = 0 - k],
      Characters(<<"moderated">>),
      EndTag(<<"body">>)>>

ModerateLinks(dom, s) ==
    IF s.MODERATE_LINKS /\ find_all(dom, "a") # <<>>
    THEN ReplaceEach(dom, find_all(dom, "a"), Aviso(1)) ELSE dom

ModerateImages(dom, s) ==
    IF s.MODERATE_IMAGES /\ find_all(dom, "img") # <<>>
    THEN ReplaceEach(dom, find_all(dom, "img"), Aviso(2)) ELSE dom

moderate_tags_always_render(html, s) ==
    LET soup0 == BSParse(html)
        soup1 == ModerateLinks(soup0, s)
        soup2 == ModerateImages(soup1, s)
        replaced == \/ s.MODERATE_LINKS /\ find_all(soup0, "a") # <<>>
                    \/ s.MODERATE_IMAGES /\ find_all(soup1, "img") # <<>>
    IN Value(Render(soup2), soup2, replaced)

moderate_tags_body(html, s) ==
    LET soup0 == BSParse(html)
        soup1 == ModerateLinks(soup0, s)
        soup2 == ModerateImages(soup1, s)
        replaced == \/ s.MODERATE_LINKS /\ find_all(soup0, "a") # <<>>
                    \/ s.MODERATE_IMAGES /\ find_all(soup1, "img") # <<>>
    IN IF replaced THEN Value(Render(soup2), soup2, TRUE)
       ELSE Value(html, soup2, FALSE)

moderate_tags(html, s) == sanitized(moderate_tags_body(html, s), s)

(***************************************************************************)
(* Documents the tree functions are called with: up to MaxChunks chunks,   *)
(* each a tag or a piece of text.                                          *)
(***************************************************************************)
A_OPEN == <<"<", "a", " href=\"/u\"", ">">>

A_CLOSE == <<"<", "/", "a", ">">>

IMG == <<"<", "img", " src=\"/u\"", ">">>

B_OPEN == <<"<", "b", ">">>

B_CLOSE == <<"<", "/", "b", ">">>

PRE_OPEN == <<"<", "pre", ">">>

PRE_CLOSE == <<"<", "/", "pre", ">">>

CODE_OPEN == <<"<", "code", ">">>

Docs(chunks) == {Flatten(cs) : cs \in SeqsUpTo(chunks, MaxChunks)}

StripChunks == {A_OPEN, B_OPEN, B_CLOSE, <<"x">>, <<" ">>}

TagLists == {NoTags, Tags(<<"b">>), Tags(<<"a", "b">>)}

Call_strip_tags ==
    /\ pc = "idle"
    /\ \E html \in Docs(StripChunks), tags \in TagLists :
          /\ args' = [html |-> html, tags |-> tags]
          /\ ret' = strip_tags(html, tags, settings)
    /\ fn' = "strip_tags"
    /\ pc' = "done"
    /\ UNCHANGED settings

NextStrip == Call_strip_tags \/ Return

SpecStrip == Init /\ [][NextStrip]_vars

ConfigureModeration ==
    /\ pc = "idle"
    /\ \E l \in BOOLEAN, i \in BOOLEAN :
          settings' = [settings EXCEPT !.MODERATE_LINKS = l, !.MODERATE_IMAGES = i]
    /\ UNCHANGED <<pc, fn, args, ret>>

ModerateChunks == {A_OPEN, A_CLOSE, IMG, B_OPEN, <<"x">>, <<" ">>}

Call_moderate_tags ==
    /\ pc = "idle"
    /\ \E html \in Docs(ModerateChunks) :
          /\ args' = [html |-> html]
          /\ ret' = moderate_tags(html, settings)
    /\ fn' = "moderate_tags"
    /\ pc' = "done"
    /\ UNCHANGED settings

NextModerate == ConfigureModeration \/ Call_moderate_tags \/ Return

SpecModerate == Init /\ [][NextModerate]_vars

(***************************************************************************)
(* Claims about strip_tags.                                                *)
(***************************************************************************)
\* Unwrapping: the start and end tags of the named elements leave, what
\* they hold stays in place.
Unwrap(dom, names) == SelectSeq(dom, LAMBDA t : ~(IsTag(t) /\ TagName(t) \in Range(names)))

\* C3: for non-empty html and a non-empty tag list, strip_tags removes the
\* start and end markers of every node named in the list and keeps the node's
\* content in place.
C3_UnwrapNotDelete ==
    (Returned("strip_tags") /\ args.tags.given /\ Strip(args.html) # <<>>) =>
        /\ ~ret.raised
        /\ ret.value = sanitize_html(Render(Unwrap(BSParse(args.html), args.tags.list)),
                                     settings)

\* C9 as stated: every call of strip_tags without tags fails, whatever html.
C9_Original ==
    (Returned("strip_tags") /\ ~args.tags.given) => ret.raised

\* C9 as amended: a call of strip_tags without tags fails exactly when html is
\* not blank (html.strip() is not empty); for blank html the corner-case return
\* comes first and the call returns the sanitized input.
C9_FailFast ==
    (Returned("strip_tags") /\ ~args.tags.given) =>
        /\ ret.raised <=> Strip(args.html) # <<>>
        /\ Strip(args.html) = <<>> => ret.value = sanitize_html(args.html, settings)

\* C9's case: a call without tags, on html that is not blank, has failed.
C9_Witness ==
    /\ Returned("strip_tags")
    /\ ~args.tags.given
    /\ Strip(args.html) # <<>>
    /\ ret.raised

(***************************************************************************)
(* Claims about moderate_tags.                                             *)
(***************************************************************************)
\* C4 as stated: when moderate_tags replaces nothing, the caller gets the
\* input string itself, not sanitized and not re-serialized.
C4_Original ==
    (Returned("moderate_tags") /\ ~ret.replaced) => ret.value = args.html

\* C4 as amended: when moderate_tags replaces nothing, the function body
\* returns the input string without rendering the parsed tree, and the caller
\* gets sanitize_html of that input, the decorator being applied to every
\* return.
C4_ShortCircuit ==
    (Returned("moderate_tags") /\ ~ret.replaced) =>
        ret.value = sanitize_html(args.html, settings)

\* C4's case: nothing was replaced although the document holds a link or an
\* image, and the input is not what rendering its tree would give.
C4_Witness ==
    /\ Returned("moderate_tags")
    /\ ~ret.replaced
    /\ find_all(BSParse(args.html), "a") \o find_all(BSParse(args.html), "img") # <<>>
    /\ Render(BSParse(args.html)) # args.html

IsAviso(t, k) == t.type = "StartTag" /\ t.id = 0 - k

\* C5: with MODERATE_LINKS and n >= 1 links, the tree holds n placeholders and
\* no link of the input; the same for the images with MODERATE_IMAGES.
C5_AllReplaced ==
    Returned("moderate_tags") =>
        LET soup0 == BSParse(args.html)
            soup1 == ModerateLinks(soup0, settings)
        IN /\ (settings.MODERATE_LINKS /\ find_all(soup0, "a") # <<>>) =>
                 /\ Count(ret.soup, LAMBDA t : IsAviso(t, 1)) = Len(find_all(soup0, "a"))
                 /\ find_all(ret.soup, "a") = <<>>
           /\ (settings.MODERATE_IMAGES /\ find_all(soup1, "img") # <<>>) =>
                 /\ Count(ret.soup, LAMBDA t : IsAviso(t, 2)) = Len(find_all(soup1, "img"))
                 /\ find_all(ret.soup, "img") = <<>>

(***************************************************************************)
(* urlize_html                                                             *)
(***************************************************************************)
IsUrl(l) == l = "http://x.com"

UrlLen(l) == CASE l = "http://x.com" -> 12 [] OTHER -> 1

HrefOf(l) == " href=\"http://x.com\""

\* The link text of a URL longer than the limit is cut and ends in an
\* ellipsis.
TrimUrl(l, limit) == IF UrlLen(l) > limit THEN "http:..." ELSE l

\* django.utils.html.urlize(text, trim_url_limit): every word that is a URL
\* becomes an anchor whose href is the URL; the rest of the text stays.
urlize(data, limit) ==
    Flatten([i \in 1..Len(data) |->
               IF IsUrl(data[i])
               THEN <<"<", "a", HrefOf(data[i]), ">", TrimUrl(data[i], limit),
                      "<", "/", "a", ">">>
               ELSE <<data[i]>>])

skip_tags == {"a", "img", "pre", "code"}

\* set(parent_tags) & set(skip_tags), parent_tags the names of node.parents
SkipContext(dom, i) == Parents(dom, i) \cap skip_tags # {}

\* The top-level nodes of a tree, each the token sequence of a node.
RECURSIVE TopLevel(_)
TopLevel(dom) ==
    IF dom = <<>> THEN <<>>
    ELSE <<SubSeq(dom, 1, NodeEnd(dom, 1))>>
         \o TopLevel(SubSeq(dom, NodeEnd(dom, 1) + 1, Len(dom)))

\* A node that came from another soup is a new node of this one.
Fresh(node) == [i \in 1..Len(node) |-> [node[i] EXCEPT !.id = 0]]

\* soup.new_string(' ')
SpaceString == <<Characters(<<" ">>)>>

RECURSIVE MoveLoop_indexed(_, _, _, _, _)
MoveLoop_indexed(soup, id, contents, left, iters) ==
    IF left = 0 \/ iters + 1 > Len(contents)
    THEN [soup |-> soup, contents |-> contents, iters |-> iters]
    ELSE LET child == contents[iters + 1]
             have_string == Head(child).type = "Characters"
             s1 == IF have_string THEN InsertBefore(soup, id, SpaceString) ELSE soup
             s2 == InsertBefore(s1, id, Fresh(child))
             s3 == IF have_string THEN InsertBefore(s2, id, SpaceString) ELSE s2
         IN MoveLoop_indexed(s3, id,
                             SubSeq(contents, 1, iters) \o
                               SubSeq(contents, iters + 2, Len(contents)),
                             left - 1, iters + 1)

\* for i in range(num_items): the first node of the fragment is moved before
\* the text node (it leaves the fragment), between two new spaces if it is a
\* string.
RECURSIVE MoveLoop(_, _, _, _, _)
MoveLoop(soup, id, contents, left, iters) ==
    IF left = 0 THEN [soup |-> soup, contents |-> contents, iters |-> iters]
    ELSE LET child == contents[1]
             have_string == Head(child).type = "Characters"
             s1 == IF have_string THEN InsertBefore(soup, id, SpaceString) ELSE soup
             s2 == InsertBefore(s1, id, Fresh(child))
             s3 == IF have_string THEN InsertBefore(s2, id, SpaceString) ELSE s2
         IN MoveLoop(s3, id, Tail(contents), left - 1, iters + 1)

\* soup.findAll(text=True): the text nodes, in document order.
TextNodes(dom) ==
    LET hits == SelectSeq(dom, LAMBDA t : t.type = "Characters")
    IN [i \in 1..Len(hits) |-> hits[i].id]

\* The body of the loop over the text nodes; st holds the soup, the nodes to
\* extract and, for the claims, what each splice did.
VisitNode(st, id, limit) ==
    LET i == IndexOfId(st.soup, id)
        node == st.soup[i]
        urlized_text == urlize(node.data, limit)
        contents == TopLevel(BSParse(urlized_text))
        moved == MoveLoop(st.soup, id, contents, Len(contents), 0)
    IN IF SkipContext(st.soup, i) THEN st
       ELSE IF node.data = urlized_text THEN st
       ELSE [soup |-> moved.soup,
             extract_nodes |-> Append(st.extract_nodes, id),
             log |-> Append(st.log, [node |-> id, num_items |-> Len(contents),
                                     iters |-> moved.iters,
                                     left |-> Len(moved.contents)])]

RECURSIVE VisitAll(_, _, _)
VisitAll(st, ids, limit) ==
    IF ids = <<>> THEN st
    ELSE VisitAll(VisitNode(st, Head(ids), limit), Tail(ids), limit)

RECURSIVE ExtractAll(_, _)
ExtractAll(dom, ids) ==
    IF ids = <<>> THEN dom ELSE ExtractAll(Extract(dom, Head(ids)), Tail(ids))

EndsWithNewline(s) == s # <<>> /\ s[Len(s)] = "\n"

urlize_html_body(html, limit) ==
    LET soup0 == BSParse(html)
        st == VisitAll([soup |-> soup0, extract_nodes |-> <<>>, log |-> <<>>],
                       TextNodes(soup0), limit)
        soup == ExtractAll(st.soup, st.extract_nodes)
        result == Render(soup)
    IN [Value(IF EndsWithNewline(html) /\ ~EndsWithNewline(result)
              THEN Append(result, "\n") ELSE result,
              soup, st.extract_nodes # <<>>)
        EXCEPT !.log = st.log]

urlize_html(html, limit, s) == sanitized(urlize_html_body(html, limit), s)

UrlizeChunks ==
    {A_OPEN, PRE_OPEN, PRE_CLOSE, B_OPEN,
     <<"x">>, <<"\n">>, <<"http://x.com">>, <<"&lt;">>}

\* trim_url_limit: the default of 40 and a limit shorter than the URL.
TrimLimits == {40, 8}

\* Every URL of the text is a word of its own: white space or the end of the
\* text node on both sides (the lexemes of a longer word would be one URL).
WholeWordUrls(data) ==
    \A k \in 1..Len(data) :
       IsUrl(data[k]) =>
          /\ k = 1 \/ IsSpace(data[k - 1])
          /\ k = Len(data) \/ IsSpace(data[k + 1])

UrlizeInputs ==
    {html \in Docs(UrlizeChunks) :
        \A i \in 1..Len(TreeBuild(Tokenize(html))) :
           WholeWordUrls(TreeBuild(Tokenize(html))[i].data)}

Call_urlize_html ==
    /\ pc = "idle"
    /\ \E html \in UrlizeInputs, limit \in TrimLimits :
          /\ args' = [html |-> html, trim_url_limit |-> limit]
          /\ ret' = urlize_html(html, limit, settings)
    /\ fn' = "urlize_html"
    /\ pc' = "done"
    /\ UNCHANGED settings

NextUrlize == Call_urlize_html \/ Return

SpecUrlize == Init /\ [][NextUrlize]_vars

(***************************************************************************)
(* Claims about urlize_html.                                               *)
(***************************************************************************)
HasSkipAncestor(dom, i) == Parents(dom, i) \cap {"a", "img", "pre", "code"} # {}

HasUrl(data) == \E k \in 1..Len(data) : IsUrl(data[k])

\* An anchor the pass created: a new node, with the full URL as its href.
IsNewAnchor(t) ==
    /\ t.type = "StartTag"
    /\ TagName(t) = "a"
    /\ t.id = 0
    /\ t.attrs = <<" href=\"http://x.com\"">>

UrlsOutsideSkip(dom) ==
    Len(SelectSeq(Flatten([i \in 1..Len(dom) |->
                             IF dom[i].type = "Characters" /\ ~HasSkipAncestor(dom, i)
                             THEN dom[i].data ELSE <<>>]),
                  IsUrl))

\* C8: a text node below an a, img, pre or code element, at any depth, is left
\* as it was, and no anchor is created inside such an element; every URL of a
\* text node with no such ancestor gets an anchor whose href is the full URL.
C8_SkipContext ==
    Returned("urlize_html") =>
        LET soup0 == BSParse(args.html) IN
        /\ \A i \in 1..Len(soup0) :
              (soup0[i].type = "Characters" /\ HasSkipAncestor(soup0, i)) =>
                 \E j \in 1..Len(ret.soup) :
                    ret.soup[j] = soup0[i] /\ HasSkipAncestor(ret.soup, j)
        /\ \A j \in 1..Len(ret.soup) :
              IsNewAnchor(ret.soup[j]) => ~HasSkipAncestor(ret.soup, j)
        /\ Count(ret.soup, IsNewAnchor) = UrlsOutsideSkip(soup0)

Replaced(dom, i, limit) ==
    /\ dom[i].type = "Characters"
    /\ ~HasSkipAncestor(dom, i)
    /\ urlize(dom[i].data, limit) # dom[i].data

\* What the claim says stands in the place of a replaced text node: the
\* top-level nodes of the parsed fragment in their order, a string between two
\* single spaces.
SpliceOf(data, limit) ==
    LET nodes == TopLevel(BSParse(urlize(data, limit)))
    IN Flatten([k \in 1..Len(nodes) |->
                  IF Head(nodes[k]).type = "Characters"
                  THEN SpaceString \o Fresh(nodes[k]) \o SpaceString
                  ELSE Fresh(nodes[k])])

ExpectedSoup(dom, limit) ==
    Flatten([i \in 1..Len(dom) |->
               IF Replaced(dom, i, limit) THEN SpliceOf(dom[i].data, limit)
               ELSE <<dom[i]>>])

\* C10: after the pass the place of every text node that URL detection changed
\* holds the k top-level nodes of the parsed fragment in their order (the loop
\* ran k times and emptied the fragment), every string among them between two
\* single-space text nodes; the text node itself is gone, and all other nodes
\* are where they were, in their order.
C10_Splice ==
    Returned("urlize_html") =>
        LET soup0 == BSParse(args.html) IN
        /\ ret.soup = ExpectedSoup(soup0, args.trim_url_limit)
        /\ \A n \in 1..Len(ret.log) :
              /\ ret.log[n].iters = ret.log[n].num_items
              /\ ret.log[n].left = 0
        /\ Len(ret.log) =
              Cardinality({i \in 1..Len(soup0) : Replaced(soup0, i, args.trim_url_limit)})
        /\ \A i \in 1..Len(soup0) :
              Replaced(soup0, i, args.trim_url_limit) =>
                 IndexOfId(ret.soup, soup0[i].id) = 0

\* C10's case: a text node with a word before the URL was replaced by a
\* fragment of more than one node, a string among them.
C10_Witness ==
    /\ Returned("urlize_html")
    /\ \E n \in 1..Len(ret.log) : ret.log[n].num_items >= 2
    /\ \E j \in 1..Len(ret.soup) :
          ret.soup[j] = Characters(<<" ">>) /\ j < Len(ret.soup)
          /\ ret.soup[j + 1].type = "Characters" /\ ret.soup[j + 1].id = 0

(***************************************************************************)
(* format_url_replacement.  A url or text is a sequence of characters;     *)
(* letters are "h", "x", "y".                                              *)
(***************************************************************************)
IsSchemeChar(c) == c \in {"h", "x", "y"}

\* The index of the first c in s at or after i, Len(s) + 1 when there is none.
RECURSIVE Find(_, _, _)
Find(s, C, i) ==
    IF i > Len(s) THEN Len(s) + 1
    ELSE IF s[i] \in C THEN i ELSE Find(s, C, i + 1)

\* urlparse(url).netloc: after an optional scheme (letters up to the first
\* colon), what follows "//" up to the next "/", "?" or "#".
Netloc(url) ==
    LET colon == Find(url, {":"}, 1)
        hasScheme == /\ colon <= Len(url)
                     /\ colon > 1
                     /\ \A k \in 1..(colon - 1) : IsSchemeChar(url[k])
        rest == IF hasScheme THEN SubSeq(url, colon + 1, Len(url)) ELSE url
    IN IF Len(rest) >= 2 /\ rest[1] = "/" /\ rest[2] = "/"
       THEN SubSeq(rest, 3, Find(rest, {"/", "?", "#"}, 3) - 1)
       ELSE <<>>

format_url_replacement_no_domain_check(url, text) ==
    LET u == Strip(url)
        t == Strip(text)
    IN IF u # <<>> /\ t # <<>> /\ u # t
       THEN u \o <<" ", "(">> \o t \o <<")">>
       ELSE IF u # <<>> THEN u ELSE IF t # <<>> THEN t ELSE <<>>

format_url_replacement(url, text) ==
    LET u == Strip(url)
        t == Strip(text)
        url_domain == Netloc(u)
    IN IF u # <<>> /\ t # <<>> /\ url_domain # t /\ u # t
       THEN u \o <<" ", "(">> \o t \o <<")">>
       ELSE IF u # <<>> THEN u ELSE IF t # <<>> THEN t ELSE <<>>

Pad == {<<>>, <<" ">>}

Words == SeqsUpTo({"x", "y"}, MaxTextLen)

UrlInputs ==
    {pre \o scheme \o slashes \o host \o path \o post :
        pre \in Pad, scheme \in {<<>>, <<"h", ":">>}, slashes \in {<<>>, <<"/", "/">>},
        host \in Words, path \in {<<>>, <<"/", "x">>}, post \in Pad}

TextInputs == {pre \o w \o post : pre \in Pad, w \in Words, post \in Pad}

Call_format_url_replacement ==
    /\ pc = "idle"
    /\ \E url \in UrlInputs :
          \E text \in TextInputs \cup {url} :
             /\ args' = [url |-> url, text |-> text]
             /\ ret' = Value(format_url_replacement(url, text), <<>>, FALSE)
    /\ fn' = "format_url_replacement"
    /\ pc' = "done"
    /\ UNCHANGED settings

NextFormat == Call_format_url_replacement \/ Return

SpecFormat == Init /\ [][NextFormat]_vars

DQ == "\""

SQ == "'"

HoldsLt(c) == c \in {"<img", "<a"}

\* site_url(''): scheme and host of APP_URL, no trailing slash.
base_url == <<"B">>

\* The end of the url group that starts at j with "/": the index of the
\* closing quote, 0 when "/[^q]+" followed by q does not match there.
UrlEnd(s, j, q) ==
    IF j + 1 <= Len(s) /\ s[j] = "/" /\ s[j + 1] # q /\ Find(s, {q}, j + 1) <= Len(s)
    THEN Find(s, {q}, j + 1) ELSE 0

\* The places of `attr` at which  open [^<]+ attr q /[^q]+ q  matches from i.
AttrPlaces(s, i, attr, q) ==
    {j \in (i + 1)..Len(s) :
        /\ s[j] = attr
        /\ \A k \in (i + 1)..(j - 1) : ~HoldsLt(s[k])
        /\ j + 1 <= Len(s) /\ s[j + 1] = q
        /\ UrlEnd(s, j + 2, q) # 0}

Max(S) == CHOOSE x \in S : \A y \in S : y <= x

\* url_re.sub(replacement, html): leftmost matches, [^<]+ greedy, the search
\* going on after each match.
RECURSIVE Sub(_, _, _, _, _, _)
Sub(s, p, open, attr, q, slash) ==
    IF p > Len(s) THEN <<>>
    ELSE IF s[p] = open /\ AttrPlaces(s, p, attr, q) # {}
         THEN LET j == Max(AttrPlaces(s, p, attr, q))
                  e == UrlEnd(s, j + 2, q)
              IN SubSeq(s, p, j) \o <<DQ>> \o base_url \o slash
                 \o SubSeq(s, j + 2, e - 1) \o <<DQ>>
                 \o Sub(s, e + 1, open, attr, q, slash)
    ELSE <<s[p]>> \o Sub(s, p + 1, open, attr, q, slash)

\* .replace(base_url + '//', base_url + '/')
RECURSIVE CollapseSlashes(_)
CollapseSlashes(s) ==
    IF s = <<>> THEN <<>>
    ELSE IF Len(s) >= 3 /\ SubSeq(s, 1, 3) = base_url \o <<"/", "/">>
         THEN base_url \o <<"/">> \o CollapseSlashes(SubSeq(s, 4, Len(s)))
    ELSE <<Head(s)>> \o CollapseSlashes(Tail(s))

absolutize_urls(html) ==
    LET h1 == Sub(html, 1, "<img", " src=", DQ, <<"/">>)
        h2 == Sub(h1, 1, "<img", " src=", SQ, <<"/">>)
        h3 == Sub(h2, 1, "<a", " href=", DQ, <<>>)
        h4 == Sub(h3, 1, "<a", " href=", SQ, <<>>)
    IN CollapseSlashes(h4)

\* One tag and the text after it.
TagParts ==
    [open : {<<"<img">>, <<"<a">>, <<"<a", "bbr">>},
     attr : {" src=", " href="},
     q : {DQ, SQ},
     val : {<<"/", "x">>, <<"/", "/", "x">>, <<"x">>,
            <<"B", "/", "x">>, <<"B", "/", "/", "x">>},
     tail : {<<>>, <<"x">>, <<"B", "/", "/", "x">>}]

Markup(p) == p.open \o <<p.attr, p.q>> \o p.val \o <<p.q, ">">> \o p.tail

Call_absolutize_urls ==
    /\ pc = "idle"
    /\ \E p \in TagParts :
          /\ args' = [html |-> Markup(p), parts |-> p]
          /\ ret' = Value(absolutize_urls(Markup(p)), <<>>, FALSE)
    /\ fn' = "absolutize_urls"
    /\ pc' = "done"
    /\ UNCHANGED settings

NextAbsolutize == Call_absolutize_urls \/ Return

SpecAbsolutize == Init /\ [][NextAbsolutize]_vars

RECURSIVE DropSlashes(_)
DropSlashes(v) == IF v # <<>> /\ Head(v) = "/" THEN DropSlashes(Tail(v)) ELSE v

\* C6: absolutize_urls changes only the quoted src of an <img> tag and the
\* quoted href of an <a> tag, when the value starts with "/", to the base URL,
\* one slash and the path; everything else in the input stays as it is.
C6_RootRelativeOnly ==
    Returned("absolutize_urls") =>
        LET p == args.parts
            rewritten == /\ \/ p.open = <<"<img">> /\ p.attr = " src="
                            \/ p.open = <<"<a">> /\ p.attr = " href="
                         /\ Head(p.val) = "/"
        IN ret.value =
              IF rewritten
              THEN p.open \o <<p.attr, DQ>> \o base_url \o <<"/">> \o DropSlashes(p.val)
                   \o <<DQ, ">">> \o p.tail
              ELSE args.html

====
